---- MODULE Spec2Model ----
(***************************************************************************)
(* State-machine model of rss.py, the RSS plugin of the LSTE static site   *)
(* generator: generate_rss (hook after_render_content) builds the feed     *)
(* into lste.plugin_vars['rss'], save_rss_file (hook after_save_site)      *)
(* writes it to <dist_path>/feed.xml.                                      *)
(*                                                                         *)
(* A Python string is modelled as a sequence of lexemes: every piece of    *)
(* template text of the f-strings is one lexeme (a string of more than one *)
(* character, "<title>"), every character of an interpolated value is one  *)
(* lexeme (a string of one character, "<"); the names and the offset of a  *)
(* formatted date are lexemes of their own.  Concatenation is \o.          *)
(* A Python dict is a function; a missing key is a key not in its DOMAIN.  *)
(***************************************************************************)
EXTENDS Naturals, Sequences, FiniteSets, TLC

VARIABLES
    version,       \* lste.version
    config_file,   \* lste.config_file
    content,       \* lste.content
    plugin_vars,   \* lste.plugin_vars: "articles" always, "rss" once built
    fs,            \* the files of lste.dist_path: file name -> content
    last,          \* the last operation: how it ended, what it found where
                   \*   it stores, the instant datetime.utcnow() gave it
    excerpt,       \* tag stripping on its own: the subject string
    stripped,      \*   the string after the passes so far
    before,        \*   the string before the last pass
    passes         \*   the number of passes made

vars == <<version, config_file, content, plugin_vars, fs, last,
          excerpt, stripped, before, passes>>

(***************************************************************************)
(* Bounds.                                                                 *)
(***************************************************************************)
MaxIndexLen == 2     \* longest Article Index
MaxLen == 6          \* longest excerpt of the tag-stripping specification
MaxPasses == 2       \* tag-stripping passes over one excerpt

NL == "\n"
Alphabet == {"<", ">", NL, "a"}

RECURSIVE TextsOfLen(_)
TextsOfLen(n) ==
    IF n = 0 THEN {<<>>}
    ELSE {Append(t, c) : t \in TextsOfLen(n - 1), c \in Alphabet}

Texts == UNION {TextsOfLen(n) : n \in 0..MaxLen}

(***************************************************************************)
(* re.sub(r'<.*?>', '', s)                                                 *)
(***************************************************************************)
\* The end of the match of '<.*?>' that starts at i, 0 when there is none:
\* '.' matches any character but a newline, '*?' takes the fewest.
\* As MatchEnd, for the pattern '<[^<]*?>': a '<' on the way ends the attempt.
RECURSIVE MatchEndInnermost(_, _)
MatchEndInnermost(s, j) ==
    IF j > Len(s) THEN 0
    ELSE IF s[j] = ">" THEN j
    ELSE IF s[j] = NL \/ s[j] = "<" THEN 0
    ELSE MatchEndInnermost(s, j + 1)

RECURSIVE MatchEnd(_, _)
MatchEnd(s, j) ==
    IF j > Len(s) THEN 0
    ELSE IF s[j] = ">" THEN j
    ELSE IF s[j] = NL THEN 0
    ELSE MatchEnd(s, j + 1)

MatchAt(s, i) == IF s[i] = "<" THEN MatchEnd(s, i + 1) ELSE 0

\* Leftmost non-overlapping matches, each replaced by ''.
RECURSIVE SubFrom(_, _)
SubFrom(s, i) ==
    IF i > Len(s) THEN <<>>
    ELSE LET end == MatchAt(s, i)
         IN  IF end # 0 THEN SubFrom(s, end + 1)
             ELSE <<s[i]>> \o SubFrom(s, i + 1)

re_sub(s) == SubFrom(s, 1)

(***************************************************************************)
(* datetime.strptime(s, "%d.%m.%Y") and strftime("%a, %d %b %Y %H:%M:%S    *)
(* +0000").  A date string is a sequence of characters.                    *)
(***************************************************************************)
DigitVal ==
    "0" :> 0 @@ "1" :> 1 @@ "2" :> 2 @@ "3" :> 3 @@ "4" :> 4 @@
    "5" :> 5 @@ "6" :> 6 @@ "7" :> 7 @@ "8" :> 8 @@ "9" :> 9

DigitChar == <<"0", "1", "2", "3", "4", "5", "6", "7", "8", "9">>

IsDigits(f) == \A i \in 1..Len(f) : f[i] \in DOMAIN DigitVal

RECURSIVE NumVal(_)
NumVal(f) ==
    IF f = <<>> THEN 0
    ELSE 10 * NumVal(SubSeq(f, 1, Len(f) - 1)) + DigitVal[f[Len(f)]]

\* The positions of the literal '.' of the format in s.
DotsOf(s) == {i \in 1..Len(s) : s[i] = "."}

IsLeap(y) == (y % 4 = 0 /\ y % 100 # 0) \/ y % 400 = 0

DaysInMonth(y, m) ==
    IF m = 2 THEN (IF IsLeap(y) THEN 29 ELSE 28)
    ELSE IF m \in {4, 6, 9, 11} THEN 30 ELSE 31

\* %d: 3[0-1]|[1-2]\d|0[1-9]|[1-9]   %m: 1[0-2]|0[1-9]|[1-9]   %Y: \d\d\d\d
\* The fields hold digits only, so the string matches the format exactly when
\* its two dots cut it into three such fields; datetime() then refuses year 0
\* and a day the month does not have.  Every refusal is a ValueError.
strptime(s) ==
    LET dots == DotsOf(s) IN
    IF Cardinality(dots) # 2 THEN [ok |-> FALSE]
    ELSE
      LET d1 == CHOOSE i \in dots : \A j \in dots : i <= j
          d2 == CHOOSE i \in dots : \A j \in dots : j <= i
          fd == SubSeq(s, 1, d1 - 1)
          fm == SubSeq(s, d1 + 1, d2 - 1)
          fy == SubSeq(s, d2 + 1, Len(s))
          day == NumVal(fd)
          month == NumVal(fm)
          year == NumVal(fy)
      IN
      IF /\ IsDigits(fd) /\ IsDigits(fm) /\ IsDigits(fy)
         /\ Len(fd) \in {1, 2} /\ day \in 1..31
         /\ Len(fm) \in {1, 2} /\ month \in 1..12
         /\ Len(fy) = 4 /\ year >= 1
         /\ day <= DaysInMonth(year, month)
      THEN [ok |-> TRUE, year |-> year, month |-> month, day |-> day,
            hour |-> 0, minute |-> 0, second |-> 0]
      ELSE [ok |-> FALSE]

DayNames == <<"Sun", "Mon", "Tue", "Wed", "Thu", "Fri", "Sat">>

MonthNames == <<"Jan", "Feb", "Mar", "Apr", "May", "Jun",
                "Jul", "Aug", "Sep", "Oct", "Nov", "Dec">>

MonthOffset == <<0, 3, 2, 5, 0, 3, 5, 1, 4, 6, 2, 4>>

\* The day of the week of a proleptic Gregorian date, 0 for Sunday.
Weekday(y, m, d) ==
    LET yy == IF m < 3 THEN y - 1 ELSE y IN
    (yy + (yy \div 4) + 6 * (yy \div 100) + (yy \div 400)
        + MonthOffset[m] + d) % 7

TwoDigits(n) ==
    <<DigitChar[((n \div 10) % 10) + 1], DigitChar[(n % 10) + 1]>>

FourDigits(n) == TwoDigits(n \div 100) \o TwoDigits(n % 100)

\* '%a, %d %b %Y %H:%M:%S +0000'
strftime(t) ==
    <<DayNames[Weekday(t.year, t.month, t.day) + 1], ", ">>
    \o TwoDigits(t.day) \o <<" ", MonthNames[t.month], " ">>
    \o FourDigits(t.year) \o <<" ">>
    \o TwoDigits(t.hour) \o <<":">> \o TwoDigits(t.minute) \o <<":">>
    \o TwoDigits(t.second) \o <<" +0000">>

(***************************************************************************)
(* generate_rss: the document                                              *)
(***************************************************************************)
Has(d, k) == k \in DOMAIN d

\* The lookups of lines 56-62, in their order: the first missing key raises.
ConfigStatus(cfg) ==
    IF /\ Has(cfg, "lste") /\ Has(cfg.lste, "title")
       /\ Has(cfg.lste, "description")
       /\ Has(cfg, "rss") /\ Has(cfg.rss, "home_url")
       /\ Has(cfg.rss, "language") /\ Has(cfg.rss, "contact")
       /\ Has(cfg.rss, "author") /\ Has(cfg.rss, "image")
    THEN "ok" ELSE "KeyError"

RSS_OPEN == "<rss xmlns:content= xmlns:wfw= xmlns:dc= xmlns:atom= xmlns:sy= xmlns:slash= version=2.0>"

SELF_LINK_FILE == "rss.xml"

\* '{contact} ({author})'
Editor(cfg) == cfg.rss.contact \o <<" (">> \o cfg.rss.author \o <<")">>

\* Lines 69-89: the root element's start and the channel block up to the
\* image block.
ChannelHead(ver, cfg, formatted_date) ==
    <<RSS_OPEN, "<channel>">>
    \o <<"<title>">> \o cfg.lste.title \o <<"</title>">>
    \o <<"<atom:link href=">> \o cfg.rss.home_url
    \o <<"/", SELF_LINK_FILE, " rel=self type=application/rss+xml/>">>
    \o <<"<link>">> \o cfg.rss.home_url \o <<"</link>">>
    \o <<"<description>">> \o cfg.lste.description \o <<"</description>">>
    \o <<"<lastBuildDate>">> \o formatted_date \o <<"</lastBuildDate>">>
    \o <<"<language>">> \o cfg.rss.language \o <<"</language>">>
    \o <<"<generator>", "LSTE ">> \o ver \o <<"</generator>">>
    \o <<"<sy:updatePeriod>", "hourly", "</sy:updatePeriod>">>
    \o <<"<sy:updateFrequency>", "1", "</sy:updateFrequency>">>
    \o <<"<managingEditor>">> \o Editor(cfg) \o <<"</managingEditor>">>
    \o <<"<webMaster>">> \o Editor(cfg) \o <<"</webMaster>">>
    \o <<"<image>">>
    \o <<"<url>">> \o cfg.rss.image \o <<"</url>">>
    \o <<"<title>">> \o cfg.lste.title \o <<"</title>">>
    \o <<"<link>">> \o cfg.rss.home_url \o <<"</link>">>
    \o <<"<width>", "32", "</width>", "<height>", "32", "</height>">>
    \o <<"</image>">>

\* Lines 93-97 and the lookups of the f-string of lines 99-110, in their
\* order: what one turn of the loop raises, "ok" when nothing.
ItemStatus(cont, article) ==
    IF ~Has(cont, article) THEN "KeyError"
    ELSE IF ~Has(cont[article], "excerpt") THEN "KeyError"
    ELSE IF ~Has(cont[article], "meta") THEN "KeyError"
    ELSE IF ~Has(cont[article].meta, "date") THEN "KeyError"
    ELSE IF ~strptime(cont[article].meta.date).ok THEN "ValueError"
    ELSE IF ~Has(cont[article], "title") THEN "KeyError"
    ELSE IF ~Has(cont[article].meta, "permalink") THEN "KeyError"
    ELSE "ok"

\* Lines 94-110: the item block of one content item.
ItemBlock(cfg, c) ==
    LET excerpt_stripped == re_sub(c.excerpt)
        formatted_date == strftime(strptime(c.meta.date))
        link == cfg.rss.home_url \o <<"/">> \o c.meta.permalink
    IN  <<"<item>">>
        \o <<"<title>">> \o c.title \o <<"</title>">>
        \o <<"<link>">> \o link \o <<"</link>">>
        \o <<"<pubDate>">> \o formatted_date \o <<"</pubDate>">>
        \o <<"<author>">> \o Editor(cfg) \o <<"</author>">>
        \o <<"<guid isPermaLink=true>">> \o link \o <<"</guid>">>
        \o <<"<description>">> \o excerpt_stripped \o <<"</description>">>
        \o <<"<content:encoded>", "<![CDATA[ ">> \o excerpt_stripped
        \o <<" ]]>", "</content:encoded>">>
        \o <<"</item>">>

\* As Articles, with an identifier that the index already named skipped.
RECURSIVE ArticlesOnce(_, _, _, _, _)
ArticlesOnce(feed_content, cfg, cont, index, i) ==
    IF i > Len(index) THEN [status |-> "ok", feed_content |-> feed_content]
    ELSE IF \E j \in 1..(i - 1) : index[j] = index[i]
    THEN ArticlesOnce(feed_content, cfg, cont, index, i + 1)
    ELSE LET raised == ItemStatus(cont, index[i])
         IN  IF raised # "ok"
             THEN [status |-> raised, feed_content |-> feed_content]
             ELSE ArticlesOnce(feed_content \o ItemBlock(cfg, cont[index[i]]),
                               cfg, cont, index, i + 1)

\* Lines 92-110: the loop over the Article Index from its i-th identifier on,
\* feed_content being the string built so far.  A raise ends the loop.
RECURSIVE Articles(_, _, _, _, _)
Articles(feed_content, cfg, cont, index, i) ==
    IF i > Len(index) THEN [status |-> "ok", feed_content |-> feed_content]
    ELSE LET raised == ItemStatus(cont, index[i])
         IN  IF raised # "ok"
             THEN [status |-> raised, feed_content |-> feed_content]
             ELSE Articles(feed_content \o ItemBlock(cfg, cont[index[i]]),
                           cfg, cont, index, i + 1)

\* As FeedContent, with feed_content begun from the slot's earlier value.
FeedContentStale(ver, cfg, cont, pv, instant) ==
    IF ConfigStatus(cfg) # "ok" THEN [status |-> "KeyError", feed_content |-> <<>>]
    ELSE IF ~Has(pv, "articles") \/ ~Has(pv.articles, "articles")
    THEN [status |-> "KeyError", feed_content |-> <<>>]
    ELSE
      LET r == Articles((IF Has(pv, "rss") THEN pv.rss ELSE <<>>)
                            \o ChannelHead(ver, cfg, strftime(instant)),
                        cfg, cont, pv.articles.articles, 1)
      IN  IF r.status # "ok" THEN r
          ELSE [status |-> "ok",
                feed_content |-> r.feed_content \o <<"</channel>", "</rss>">>]

\* Lines 112-113, reached when the loop raised nothing.
Finalize(r) ==
    IF r.status = "ok"
    THEN [status |-> "ok",
          feed_content |-> r.feed_content \o <<"</channel>", "</rss>">>]
    ELSE r

\* Lines 54-113: the local feed_content when the function reaches line 114,
\* or the exception it raised before.
FeedContent(ver, cfg, cont, pv, instant) ==
    IF ConfigStatus(cfg) # "ok" THEN [status |-> "KeyError", feed_content |-> <<>>]
    ELSE IF ~Has(pv, "articles") \/ ~Has(pv.articles, "articles")
    THEN [status |-> "KeyError", feed_content |-> <<>>]
    ELSE
      Finalize(Articles(ChannelHead(ver, cfg, strftime(instant)),
                        cfg, cont, pv.articles.articles, 1))

(***************************************************************************)
(* The host's data: configurations, content stores, build instants.        *)
(***************************************************************************)
GoodConfig ==
    [lste |-> [title |-> <<"T">>, description |-> <<"D">>],
     rss  |-> [home_url |-> <<"u">>, language |-> <<"e">>,
               contact |-> <<"c">>, author |-> <<"A">>, image |-> <<"i">>]]

\* Values with markup characters in them: "R&D", "a<b".
MarkupConfig ==
    [lste |-> [title |-> <<"R", "&", "D">>, description |-> <<"a", "<", "b">>],
     rss  |-> [home_url |-> <<"u">>, language |-> <<"e">>,
               contact |-> <<"c">>, author |-> <<"A">>, image |-> <<"i">>]]

NoHomeUrlConfig ==
    [lste |-> [title |-> <<"T">>, description |-> <<"D">>],
     rss  |-> [language |-> <<"e">>,
               contact |-> <<"c">>, author |-> <<"A">>, image |-> <<"i">>]]

NoTitleConfig ==
    [lste |-> [description |-> <<"D">>],
     rss  |-> [home_url |-> <<"u">>, language |-> <<"e">>,
               contact |-> <<"c">>, author |-> <<"A">>, image |-> <<"i">>]]

Configs == {GoodConfig, MarkupConfig, NoHomeUrlConfig, NoTitleConfig}

\* "<p>W</p>" dated "01.02.2024".
HelloItem ==
    [title |-> <<"H">>,
     excerpt |-> <<"<", "p", ">", "W", "<", "/", "p", ">">>,
     meta |-> [date |-> <<"0", "1", ".", "0", "2", ".", "2", "0", "2", "4">>,
               permalink |-> <<"h">>]]

\* Title "a<b"; excerpt "<b>x]]>&<": after the tags are stripped, "x]]>&<".
WorldItem ==
    [title |-> <<"a", "<", "b">>,
     excerpt |-> <<"<", "b", ">", "x", "]", "]", ">", "&", "<">>,
     meta |-> [date |-> <<"2", "9", ".", "2", ".", "2", "0", "2", "4">>,
               permalink |-> <<"w">>]]

\* Dated "2024-02-01".
IsoDateItem ==
    [title |-> <<"I">>, excerpt |-> <<"x">>,
     meta |-> [date |-> <<"2", "0", "2", "4", "-", "0", "2", "-", "0", "1">>,
               permalink |-> <<"i">>]]

NoPermalinkItem ==
    [title |-> <<"I">>, excerpt |-> <<"x">>,
     meta |-> [date |-> <<"0", "1", ".", "0", "2", ".", "2", "0", "2", "4">>]]

Ids == {"hello", "world"}

Stores ==
    {[hello |-> HelloItem, world |-> w] :
        w \in {WorldItem, IsoDateItem, NoPermalinkItem}}
    \cup {[hello |-> HelloItem]}

RECURSIVE IndexesOfLen(_)
IndexesOfLen(n) ==
    IF n = 0 THEN {<<>>}
    ELSE {Append(t, a) : t \in IndexesOfLen(n - 1), a \in Ids}

Indexes == UNION {IndexesOfLen(n) : n \in 0..MaxIndexLen}

Instants ==
    {[year |-> 2024, month |-> 3, day |-> 5,
      hour |-> 7, minute |-> 8, second |-> 9],
     [year |-> 2025, month |-> 12, day |-> 31,
      hour |-> 23, minute |-> 59, second |-> 58]}

\* Of an operation that reads no clock.
NoInstant ==
    [year |-> 1, month |-> 1, day |-> 1, hour |-> 0, minute |-> 0, second |-> 0]

FEED_FILE == "feed.xml"

\* A feed.xml left in the output directory by an earlier process.
LegacyFile == <<"legacy">>

(***************************************************************************)
(* The operations                                                          *)
(***************************************************************************)
Lexemes(doc, x) == {i \in 1..Len(doc) : doc[i] = x}

\* What an operation found where it was about to store: ghost state.
SlotFound(pv) ==
    IF ~Has(pv, "rss") THEN "absent"
    ELSE IF Lexemes(pv.rss, "<item>") = {} THEN "no items"
    ELSE "items"

FileFound(files, name, data) ==
    IF ~Has(files, name) THEN "absent"
    ELSE IF files[name] = data THEN "same"
    ELSE IF Len(files[name]) > Len(data) THEN "longer"
    ELSE "other"

\* As StoreRss, with += for =.
StoreRssAppend(pv, feed_content) ==
    [k \in DOMAIN pv \cup {"rss"} |->
        IF k # "rss" THEN pv[k]
        ELSE IF Has(pv, "rss") THEN pv.rss \o feed_content
        ELSE feed_content]

\* Line 114: lste.plugin_vars['rss'] = feed_content
StoreRss(pv, feed_content) ==
    [k \in DOMAIN pv \cup {"rss"} |->
        IF k = "rss" THEN feed_content ELSE pv[k]]

\* As WriteFile, with open(name, "a").
WriteFileAppend(files, name, data) ==
    [k \in DOMAIN files \cup {name} |->
        IF k # name THEN files[k]
        ELSE IF Has(files, name) THEN files[name] \o data
        ELSE data]

\* Lines 136-137: open(name, "w") truncates or creates; write() of the whole.
WriteFile(files, name, data) ==
    [k \in DOMAIN files \cup {name} |->
        IF k = name THEN data ELSE files[k]]

Init ==
    /\ version = <<"1">>
    /\ config_file \in Configs
    /\ content \in Stores
    /\ plugin_vars = [articles |-> [articles |-> <<>>]]
    /\ fs \in {[f \in {} |-> <<>>], [f \in {FEED_FILE} |-> LegacyFile]}
    /\ last = [op |-> "init", status |-> "ok", found |-> "-", instant |-> NoInstant]
    /\ excerpt = <<>>
    /\ stripped = <<>>
    /\ before = <<>>
    /\ passes = 0

\* The host renders the content: the Article Index of the next build.  Two
\* renderings with no hook between them leave what the second alone leaves.
RenderContent ==
    /\ last.op # "render"
    /\ \E ix \in Indexes :
          plugin_vars' = [plugin_vars EXCEPT !.articles = [articles |-> ix]]
    /\ last' = [op |-> "render", status |-> "ok", found |-> "-", instant |-> NoInstant]
    /\ UNCHANGED <<version, config_file, content, fs,
                   excerpt, stripped, before, passes>>

\* As GenerateRss, with the string built so far stored when the run raises.
GenerateRssPartial ==
    /\ \E instant \in Instants :
          \E r \in {FeedContent(version, config_file, content,
                                plugin_vars, instant)} :
              /\ plugin_vars' = StoreRss(plugin_vars, r.feed_content)
              /\ last' = [op |-> "generate_rss", status |-> r.status,
                          found |-> SlotFound(plugin_vars),
                          instant |-> instant]
    /\ UNCHANGED <<version, config_file, content, fs,
                   excerpt, stripped, before, passes>>

\* generate_rss(lste), the hook of 'after_render_content'.
GenerateRss ==
    /\ \E instant \in Instants :
          \E r \in {FeedContent(version, config_file, content,
                                plugin_vars, instant)} :
              /\ plugin_vars' =
                    IF r.status = "ok"
                    THEN StoreRss(plugin_vars, r.feed_content)
                    ELSE plugin_vars
              /\ last' = [op |-> "generate_rss", status |-> r.status,
                          found |-> SlotFound(plugin_vars),
                          instant |-> instant]
    /\ UNCHANGED <<version, config_file, content, fs,
                   excerpt, stripped, before, passes>>

\* As SaveRssFile, with the file opened before the slot is read.
SaveRssFileOpenFirst ==
    /\ \E writable \in BOOLEAN :
          IF ~writable
          THEN /\ fs' = fs
               /\ last' = [op |-> "save_rss_file", status |-> "OSError",
                           found |-> "-", instant |-> NoInstant]
          ELSE IF ~Has(plugin_vars, "rss")
          THEN /\ fs' = WriteFile(fs, FEED_FILE, <<>>)
               /\ last' = [op |-> "save_rss_file", status |-> "KeyError",
                           found |-> "-", instant |-> NoInstant]
          ELSE /\ fs' = WriteFile(fs, FEED_FILE, plugin_vars.rss)
               /\ last' = [op |-> "save_rss_file", status |-> "ok",
                           found |-> FileFound(fs, FEED_FILE, plugin_vars.rss),
                           instant |-> NoInstant]
    /\ UNCHANGED <<version, config_file, content, plugin_vars,
                   excerpt, stripped, before, passes>>

\* save_rss_file(lste), the hook of 'after_save_site'.  The lookup of line
\* 133 raises before the file is opened; open() raises when the output
\* directory is missing or not writable.
SaveRssFile ==
    /\ \E writable \in BOOLEAN :
          IF ~Has(plugin_vars, "rss")
          THEN /\ fs' = fs
               /\ last' = [op |-> "save_rss_file", status |-> "KeyError",
                           found |-> "-", instant |-> NoInstant]
          ELSE IF ~writable
          THEN /\ fs' = fs
               /\ last' = [op |-> "save_rss_file", status |-> "OSError",
                           found |-> "-", instant |-> NoInstant]
          ELSE /\ fs' = WriteFile(fs, FEED_FILE, plugin_vars.rss)
               /\ last' = [op |-> "save_rss_file", status |-> "ok",
                           found |-> FileFound(fs, FEED_FILE, plugin_vars.rss),
                           instant |-> NoInstant]
    /\ UNCHANGED <<version, config_file, content, plugin_vars,
                   excerpt, stripped, before, passes>>

Next == RenderContent \/ GenerateRss \/ SaveRssFile

Spec == Init /\ [][Next]_vars

(***************************************************************************)
(* Tag stripping on its own: line 94 applied to any excerpt, and again to  *)
(* its own result.                                                         *)
(***************************************************************************)
InitStrip ==
    /\ version = <<"1">>
    /\ config_file = GoodConfig
    /\ content = [hello |-> HelloItem]
    /\ plugin_vars = [articles |-> [articles |-> <<>>]]
    /\ fs = [f \in {} |-> <<>>]
    /\ last = [op |-> "init", status |-> "ok", found |-> "-", instant |-> NoInstant]
    /\ excerpt \in Texts
    /\ stripped = excerpt
    /\ before = excerpt
    /\ passes = 0

StripPass ==
    /\ passes < MaxPasses
    /\ before' = stripped
    /\ stripped' = re_sub(stripped)
    /\ passes' = passes + 1
    /\ UNCHANGED <<version, config_file, content, plugin_vars, fs,
                   last, excerpt>>

NextStrip == StripPass

SpecStrip == InitStrip /\ [][NextStrip]_vars

(***************************************************************************)
(* Reading a document back                                                 *)
(***************************************************************************)
Built == last.op = "generate_rss" /\ last.status = "ok"

Saved == last.op = "save_rss_file" /\ last.status = "ok"

Index == plugin_vars.articles.articles

\* The k-th smallest member of a set of positions.
NthOf(S, k) == CHOOSE x \in S : Cardinality({y \in S : y < x}) = k - 1

\* The lexemes between the first `open` and the first `close` after it.
Between(doc, open, close) ==
    LET o == CHOOSE i \in Lexemes(doc, open) :
                 \A j \in Lexemes(doc, open) : i <= j
        c == CHOOSE i \in Lexemes(doc, close) :
                 i > o /\ \A j \in Lexemes(doc, close) : j > o => i <= j
    IN  SubSeq(doc, o + 1, c - 1)

\* The k-th item block of a document: from its k-th "<item>" to its k-th
\* "</item>".
ItemBlockOf(doc, k) ==
    SubSeq(doc, NthOf(Lexemes(doc, "<item>"), k),
                NthOf(Lexemes(doc, "</item>"), k))

\* The elements of the template that enclose the items: each opened once and
\* closed once, the root first and last, in proper nesting.
ChannelNested(doc) ==
    /\ Lexemes(doc, RSS_OPEN) = {1}
    /\ Lexemes(doc, "</rss>") = {Len(doc)}
    /\ Cardinality(Lexemes(doc, "<channel>")) = 1
    /\ Cardinality(Lexemes(doc, "</channel>")) = 1
    /\ Cardinality(Lexemes(doc, "<image>")) = 1
    /\ Cardinality(Lexemes(doc, "</image>")) = 1
    /\ \A c \in Lexemes(doc, "<channel>"), i \in Lexemes(doc, "<image>"),
          j \in Lexemes(doc, "</image>"), d \in Lexemes(doc, "</channel>") :
          1 < c /\ c < i /\ i < j /\ j < d /\ d < Len(doc)

\* Position i lies in a literal-content block: after a "<![CDATA[ " that no
\* " ]]>" of the template has closed.
InCData(doc, i) ==
    \E o \in Lexemes(doc, "<![CDATA[ ") :
        o < i /\ \A c \in Lexemes(doc, " ]]>") : c < o \/ c >= i

\* Characters of inserted text that a parser reads as document structure: a
\* '<' or an '&' outside a literal-content block, a "]]>" inside one.
RawMarkup(doc) ==
    {i \in 1..Len(doc) : doc[i] \in {"<", "&"} /\ ~InCData(doc, i)}

CDataEnds(doc) ==
    {i \in 1..(Len(doc) - 2) :
        /\ InCData(doc, i)
        /\ doc[i] = "]" /\ doc[i + 1] = "]" /\ doc[i + 2] = ">"}

WellFormed(doc) ==
    /\ ChannelNested(doc)
    /\ Cardinality(Lexemes(doc, "<item>")) = Cardinality(Lexemes(doc, "</item>"))
    /\ RawMarkup(doc) = {}
    /\ CDataEnds(doc) = {}

\* No '<' with a '>' anywhere after it.
NoTag(s) == ~\E i, j \in 1..Len(s) : i < j /\ s[i] = "<" /\ s[j] = ">"

(***************************************************************************)
(* Claims                                                                  *)
(***************************************************************************)

\* C1: after a successful generate_rss the stored document has as many item
\* blocks as the Article Index has identifiers, and its i-th item block
\* carries the title, the link and the guid of the content item that the
\* i-th identifier names: nothing dropped, deduplicated, added or re-ordered.
C1_ItemsFollowIndex ==
    Built =>
        LET doc == plugin_vars.rss IN
        /\ Cardinality(Lexemes(doc, "<item>")) = Len(Index)
        /\ Cardinality(Lexemes(doc, "</item>")) = Len(Index)
        /\ \A i \in 1..Len(Index) :
              LET block == ItemBlockOf(doc, i)
                  c == content[Index[i]]
                  link == config_file.rss.home_url \o <<"/">> \o c.meta.permalink
              IN  /\ block[1] = "<item>"
                  /\ Lexemes(block, "<item>") = {1}
                  /\ Between(block, "<title>", "</title>") = c.title
                  /\ Between(block, "<link>", "</link>") = link
                  /\ Between(block, "<guid isPermaLink=true>", "</guid>") = link

\* A built feed whose index names the same item twice.
C1_Witness ==
    /\ Built
    /\ Len(Index) >= 2
    /\ Index[1] = "world" /\ Index[2] = "world"

\* C2: after a successful save_rss_file, feed.xml holds exactly the feed of
\* the scratch-area slot, whatever the file held before.
C2_FileIsLatestFeed ==
    Saved => Has(fs, FEED_FILE) /\ fs[FEED_FILE] = plugin_vars.rss

\* A save over a feed.xml that was longer than the feed written.
C2_Witness == Saved /\ last.found = "longer"

\* C3: after a successful generate_rss the slot holds exactly the document of
\* the current configuration, content, Article Index and build instant,
\* whatever it held before.
C3_SlotIsCurrentDocument ==
    Built =>
        /\ Has(plugin_vars, "rss")
        /\ plugin_vars.rss =
              FeedContent(version, config_file, content,
                          [articles |-> plugin_vars.articles],
                          last.instant).feed_content

\* A successful run that found the feed of an earlier run in the slot.
C3_Witness == Built /\ last.found = "items" /\ Index # <<>>

\* Some lookup of generate_rss is missing or some date malformed.
BadInput ==
    \/ ConfigStatus(config_file) # "ok"
    \/ \E i \in 1..Len(Index) : ItemStatus(content, Index[i]) # "ok"

\* C4: with a configuration key missing, or an indexed item (at any position)
\* lacking a field or carrying a malformed date, generate_rss raises, and a
\* run that raises leaves plugin_vars as it was.
C4_FailureStoresNothing ==
    /\ [](last.op = "generate_rss" /\ BadInput
             => last.status \in {"KeyError", "ValueError"})
    /\ [][last'.op = "generate_rss" /\ last'.status # "ok"
             => plugin_vars' = plugin_vars]_vars

\* A run that raised on the date of the last item of the index, after a valid
\* one, with an earlier feed in the slot.
C4_Witness ==
    /\ last.op = "generate_rss" /\ last.status = "ValueError"
    /\ Index = <<"hello", "world">>
    /\ last.found = "items"
    /\ Lexemes(plugin_vars.rss, "</rss>") = {Len(plugin_vars.rss)}

\* C5: a second pass of tag stripping changes nothing.
C5_StripIdempotent == passes >= 2 => stripped = before

\* Two passes over "<<a>a>", which the first pass leaves as "a>".
C5_Witness ==
    /\ passes = 2
    /\ excerpt = <<"<", "<", "a", ">", "a", ">">>
    /\ stripped = <<"a", ">">>

\* C6: the stripped excerpt holds no '<' ... '>', a line break between the
\* two or not.
C6_NoTagLeft == passes >= 1 => NoTag(stripped)

\* C7: a successful run with an empty Article Index stores a document with no
\* item block in which rss, channel and image are each opened once and closed
\* once in proper nesting, also when the slot held a feed with items.
C7_EmptyIndexDocument ==
    (Built /\ Index = <<>>) =>
        /\ Lexemes(plugin_vars.rss, "<item>") = {}
        /\ Lexemes(plugin_vars.rss, "</item>") = {}
        /\ ChannelNested(plugin_vars.rss)

\* An empty-index run over a slot that held a feed with items.
C7_Witness == Built /\ Index = <<>> /\ last.found = "items"

\* C8: every stored document is well-formed: inserted text adds no structure
\* and cannot end the literal-content block.
C8_StoredDocumentWellFormed == Built => WellFormed(plugin_vars.rss)

\* C9: the href of the channel's self link names the file that save_rss_file
\* wrote the document to.
C9_SelfLinkNamesWrittenFile ==
    Saved =>
        \E name \in DOMAIN fs :
            /\ fs[name] = plugin_vars.rss
            /\ Between(fs[name], "<atom:link href=",
                       " rel=self type=application/rss+xml/>")
                   = config_file.rss.home_url \o <<"/", name>>

====
